---- MODULE Spec2Model ----
(***************************************************************************)
(* Model of GPy/likelihoods/link_functions.py: the SigmoidalInverse        *)
(* constraint transformation, the GPTransformation class hierarchy and     *)
(* the Probit / Probit2 / Log / Heaviside link functions.                  *)
(*                                                                         *)
(* One Probit instance is followed from its construction on.               *)
(* Numbers.  Latent values f and gradients are small integers.  The        *)
(* arrays given to SigmoidalInverse.initialize hold values counted in      *)
(* units of the machine epsilon: Eps is one unit and 1.0 is EpsPerOne      *)
(* units, so that an integer-typed array holds multiples of EpsPerOne.     *)
(* Results of transcendental functions are kept as terms such as           *)
(* [fn |-> "exp", arg |-> 2].                                              *)
(***************************************************************************)
EXTENDS Integers, Sequences, FiniteSets, TLC

VARIABLES obj, log, arg, ret

vars == <<obj, log, arg, ret>>

(* ----------------------------- bounds ---------------------------------- *)
MaxNu    == 2   \* nu is drawn from 1..MaxNu
MaxG     == 1   \* gradient contributions are -MaxG, 0 or MaxG
MaxCalls == 3   \* gradient calls recorded per instance
MaxF     == 2   \* latent values are -MaxF, 0 or MaxF
MaxSize  == 3   \* number of elements of an input array
EpsPerOne == 4  \* resolution of the modelled floats: 1.0 = EpsPerOne * Eps

(* --------------------------- program constants ------------------------- *)
Eps == 1        \* np.finfo(float).eps, the unit of the modelled floats

\* GPy.util.misc clipping thresholds, scaled to the modelled value range
LimValExp    == 1   \* _lim_val_exp
LimValSquare == 3   \* _lim_val_square

(* ------------------------------ helpers -------------------------------- *)
None == [outcome |-> "none"]

RECURSIVE Product(_)
Product(s) == IF s = <<>> THEN 1 ELSE Head(s) * Product(Tail(s))

Shapes1D == {<<n>> : n \in 0..MaxSize}
Shapes2D == {s \in {<<r, c>> : r \in 1..MaxSize, c \in 1..MaxSize} :
               s[1] * s[2] <= MaxSize}

SeqsOfLen(vals, n) == [1..n -> vals]

\* numpy arrays of one dtype: 0-d, 1-d and 2-d, flat data in row-major order
NdArrays(vals, dtype) ==
  UNION {{[kind |-> "ndarray", dtype |-> dtype, shape |-> s, data |-> d] :
            d \in SeqsOfLen(vals, Product(s))} :
         s \in {<<>>} \cup Shapes1D \cup Shapes2D}

\* plain Python floats
PyFloats(vals) ==
  {[kind |-> "float", dtype |-> "float", shape |-> <<>>, data |-> <<v>>] : v \in vals}

Min(a, b) == IF a < b THEN a ELSE b
Max(a, b) == IF a > b THEN a ELSE b

\* np.clip(x, lo, hi) on one element
clip(x, lo, hi) == Max(lo, Min(x, hi))

\* GPy.util.misc.safe_exp: exp of the argument clipped from above
safe_exp(x) == [fn |-> "exp", x |-> Min(x, LimValExp), coef |-> 1]

\* GPy.util.misc.safe_square: square of the argument clipped to +-LimValSquare
safe_square(x) ==
  LET c == clip(x, -LimValSquare, LimValSquare) IN c * c

\* GPy.util.univariate_Gaussian: the value is coef * fn(x), kept as a term
std_norm_cdf(x) == [fn |-> "std_norm_cdf", x |-> x, coef |-> 1]
std_norm_pdf(x) == [fn |-> "std_norm_pdf", x |-> x, coef |-> 1]
Times(t, k) == [t EXCEPT !.coef = @ * k]

(* -------------------------- class hierarchy ---------------------------- *)
Classes == {"SigmoidalInverse", "GPTransformation", "Identity", "Probit",
            "Probit2", "Cloglog", "Log", "Log_ex_1", "Reciprocal", "Heaviside"}

\* the base named in each class statement
Base(c) ==
  CASE c = "SigmoidalInverse" -> "Transformation"
    [] c = "GPTransformation" -> "Parameterized"
    [] c \in {"Identity", "Probit", "Probit2", "Cloglog", "Log", "Log_ex_1",
              "Reciprocal", "Heaviside"} -> "GPTransformation"
    [] OTHER -> "object"

LinkOps == {"transf", "dtransf_df", "d2transf_df2", "d3transf_df3"}
GradOps == {"dtransf_dtheta", "update_gradients", "reset_gradients"}

\* the methods each class body defines itself
Defines(c) ==
  CASE c = "SigmoidalInverse" -> {"f", "finv", "gradfactor", "initialize", "__str__"}
    [] c = "GPTransformation" -> {"__init__"} \cup LinkOps
    [] c \in {"Identity", "Cloglog", "Log", "Log_ex_1", "Reciprocal"} -> LinkOps
    [] c \in {"Probit", "Probit2"} -> {"__init__"} \cup LinkOps \cup GradOps
    [] c = "Heaviside" -> {"transf", "dtransf_df", "d2transf_df2"}
    [] OTHER -> {}

\* attribute lookup along the (single-inheritance) method resolution order
RECURSIVE Resolve(_, _)
Resolve(c, m) ==
  IF m \in Defines(c) THEN c
  ELSE IF c = "object" THEN "AttributeError"
  ELSE Resolve(Base(c), m)

RECURSIVE IsSubclass(_, _)
IsSubclass(c, t) ==
  IF c = t THEN TRUE
  ELSE IF c = "object" THEN FALSE
  ELSE IsSubclass(Base(c), t)

Raise(cls, op, a, exc, msg, owner) ==
  [cls |-> cls, op |-> op, arg |-> a, outcome |-> "raise", exc |-> exc,
   msg |-> msg, owner |-> owner]

Return(cls, op, a, v, owner) ==
  [cls |-> cls, op |-> op, arg |-> a, outcome |-> "return", value |-> v,
   owner |-> owner]

(* ------------------------- Probit and Probit2 -------------------------- *)
NuVals == 1..MaxNu
GVals  == {-MaxG, 0, MaxG}
FVals  == {-MaxF, 0, MaxF}
\* what the freshly allocated (uninitialised) gradient array may hold
G0Vals == {0, 1}

\* the statements shared by the two constructors: super(superOf, self).__init__,
\* Param('nu', float(nu), constraint), constrain_fixed if fixed, link_parameter.
\* g0 is the content of the freshly allocated gradient array.
\* The result is <<instance or None, outcome of the call>>.
InitBody(cls, superOf, constraint, nu, fixed, g0) ==
  LET a == [nu |-> nu, fixed |-> fixed] IN
  IF ~IsSubclass(cls, superOf)
  THEN <<None, Raise(cls, "__init__", a, "TypeError",
                     "super(type, obj): obj must be an instance or subtype of type",
                     cls)>>
  ELSE <<[outcome |-> "instance", cls |-> cls, nu |-> nu,
          constraint |-> constraint, fixed |-> fixed, gradient |-> g0],
         Return(cls, "__init__", a, "None", cls)>>

Probit_init(nu, fixed, g0) ==
  InitBody("Probit", "Probit", "Logistic(-1e5,1e5)", nu, fixed, g0)

Probit2_init(nu, fixed, g0) ==
  InitBody("Probit2", "Probit", "Logexp()", nu, fixed, g0)

\* the expression Probit(nu, fixed), evaluated while no instance is held
NewProbit ==
  /\ obj = None
  /\ \E nu \in NuVals, fixed \in BOOLEAN, g0 \in G0Vals :
       LET r == Probit_init(nu, fixed, g0) IN
         /\ obj' = IF r[2].outcome = "return" THEN r[1] ELSE obj
         /\ log' = IF r[2].outcome = "return" THEN <<>> ELSE log
         /\ ret' = r[2]
         /\ UNCHANGED arg

\* the expression Probit2(nu, fixed), evaluated while no instance is held
NewProbit2 ==
  /\ obj = None
  /\ \E nu \in NuVals, fixed \in BOOLEAN, g0 \in G0Vals :
       LET r == Probit2_init(nu, fixed, g0) IN
         /\ obj' = IF r[2].outcome = "return" THEN r[1] ELSE obj
         /\ log' = IF r[2].outcome = "return" THEN <<>> ELSE log
         /\ ret' = r[2]
         /\ UNCHANGED arg

IsProbit == obj.outcome = "instance" /\ obj.cls = "Probit"

Probit_transf(self, f) == std_norm_cdf(f * self.nu)
Probit_dtransf_df(self, f) == Times(std_norm_pdf(f * self.nu), self.nu)
Probit_d2transf_df2(self, f) ==
  Times(std_norm_pdf(f * self.nu), (-(f * self.nu)) * (self.nu * self.nu))
Probit_d3transf_df3(self, f) ==
  Times(std_norm_pdf(f * self.nu),
        (safe_square(f * self.nu) - 1) * (self.nu * self.nu * self.nu))
Probit_dtransf_dtheta(self, f) == Times(std_norm_pdf(f * self.nu), f)

\* variant: the gradient is always overwritten, reset or not
Probit_update_gradients_overwrite(self, gradient, reset) ==
  [self EXCEPT !.gradient = gradient]

\* variant: the gradient is stored into nu itself instead of nu.gradient
Probit_update_gradients_into_nu(self, gradient, reset) ==
  IF reset THEN [self EXCEPT !.nu = gradient]
  ELSE [self EXCEPT !.nu = @ + gradient]

\* update_gradients: the new content of nu.gradient
Probit_update_gradients(self, gradient, reset) ==
  IF reset THEN [self EXCEPT !.gradient = gradient]
  ELSE [self EXCEPT !.gradient = @ + gradient]

Probit_reset_gradients(self) == [self EXCEPT !.gradient = 0]

ProbitEval(op, f) ==
  CASE op = "transf" -> Probit_transf(obj, f)
    [] op = "dtransf_df" -> Probit_dtransf_df(obj, f)
    [] op = "d2transf_df2" -> Probit_d2transf_df2(obj, f)
    [] op = "d3transf_df3" -> Probit_d3transf_df3(obj, f)
    [] op = "dtransf_dtheta" -> Probit_dtransf_dtheta(obj, f)

ReadOps == LinkOps \cup {"dtransf_dtheta"}

\* one call of transf, a derivative or dtransf_dtheta on the instance
CallRead(op) ==
  /\ IsProbit
  /\ \E f \in FVals :
       ret' = Return("Probit", op, [f |-> f], ProbitEval(op, f), Resolve("Probit", op))
  /\ UNCHANGED <<obj, log, arg>>

CallTransf        == CallRead("transf")
CallDtransfDf     == CallRead("dtransf_df")
CallD2transfDf2   == CallRead("d2transf_df2")
CallD3transfDf3   == CallRead("d3transf_df3")
CallDtransfDtheta == CallRead("dtransf_dtheta")

CallUpdateGradients ==
  /\ IsProbit
  /\ Len(log) < MaxCalls
  /\ \E g \in GVals, reset \in BOOLEAN :
       /\ obj' = Probit_update_gradients(obj, g, reset)
       /\ log' = Append(log, [op |-> "update_gradients", g |-> g, reset |-> reset])
       /\ ret' = Return("Probit", "update_gradients", [g |-> g, reset |-> reset],
                        "None", "Probit")
  /\ UNCHANGED arg

CallResetGradients ==
  /\ IsProbit
  /\ Len(log) < MaxCalls
  /\ obj' = Probit_reset_gradients(obj)
  /\ log' = Append(log, [op |-> "reset_gradients", g |-> 0, reset |-> TRUE])
  /\ ret' = Return("Probit", "reset_gradients", [g |-> 0, reset |-> TRUE],
                   "None", "Probit")
  /\ UNCHANGED arg

Init ==
  /\ obj = None
  /\ log = <<>>
  /\ arg = None
  /\ ret = None

Next ==
  \/ NewProbit
  \/ NewProbit2
  \/ CallTransf
  \/ CallDtransfDf
  \/ CallD2transfDf2
  \/ CallD3transfDf3
  \/ CallDtransfDtheta
  \/ CallUpdateGradients
  \/ CallResetGradients

Spec == Init /\ [][Next]_vars

(* --------------------- stateless link functions ------------------------ *)
\* the result of an elementwise numpy operation: the argument's shape, new data
MapArr(a, data, dtype) ==
  [kind |-> "ndarray", dtype |-> dtype, shape |-> a.shape, data |-> data]

Returned(v) == [outcome |-> "return", value |-> v]
Raised(exc, msg) == [outcome |-> "raise", exc |-> exc, msg |-> msg]

GPTransformation_transf(f)       == Raised("NotImplementedError", "")
GPTransformation_dtransf_df(f)   == Raised("NotImplementedError", "")
GPTransformation_d2transf_df2(f) == Raised("NotImplementedError", "")
GPTransformation_d3transf_df3(f) == Raised("NotImplementedError", "")

Log_exp(x) == safe_exp(x)
Log_transf(f)       == Returned(MapArr(f, [i \in 1..Len(f.data) |-> Log_exp(f.data[i])], "float64"))
Log_dtransf_df(f)   == Returned(MapArr(f, [i \in 1..Len(f.data) |-> Log_exp(f.data[i])], "float64"))
\* variant: the second derivative through a plain, unclipped exponential
Log_d2transf_df2_unclipped(f) ==
  Returned(MapArr(f, [i \in 1..Len(f.data) |-> [fn |-> "exp", x |-> f.data[i], coef |-> 1]],
                  "float64"))
Log_d2transf_df2(f) == Returned(MapArr(f, [i \in 1..Len(f.data) |-> Log_exp(f.data[i])], "float64"))
Log_d3transf_df3(f) == Returned(MapArr(f, [i \in 1..Len(f.data) |-> Log_exp(f.data[i])], "float64"))

\* variant: the indicator of x >= 0
Heaviside_step_geq(x) == IF x >= 0 THEN 1 ELSE 0
\* np.where(f > 0, 1, 0) on one element
Heaviside_step(x) == IF x > 0 THEN 1 ELSE 0
Heaviside_transf(f) == Returned(MapArr(f, [i \in 1..Len(f.data) |-> Heaviside_step(f.data[i])], "int64"))
Heaviside_dtransf_df(f) ==
  Raised("NotImplementedError", "This function is not differentiable!")
Heaviside_d2transf_df2(f) ==
  Raised("NotImplementedError", "This function is not differentiable!")

\* the body of method m as written in class owner
Body(owner, m, f) ==
  CASE owner = "GPTransformation" /\ m = "transf"       -> GPTransformation_transf(f)
    [] owner = "GPTransformation" /\ m = "dtransf_df"   -> GPTransformation_dtransf_df(f)
    [] owner = "GPTransformation" /\ m = "d2transf_df2" -> GPTransformation_d2transf_df2(f)
    [] owner = "GPTransformation" /\ m = "d3transf_df3" -> GPTransformation_d3transf_df3(f)
    [] owner = "Log" /\ m = "transf"       -> Log_transf(f)
    [] owner = "Log" /\ m = "dtransf_df"   -> Log_dtransf_df(f)
    [] owner = "Log" /\ m = "d2transf_df2" -> Log_d2transf_df2(f)
    [] owner = "Log" /\ m = "d3transf_df3" -> Log_d3transf_df3(f)
    [] owner = "Heaviside" /\ m = "transf"       -> Heaviside_transf(f)
    [] owner = "Heaviside" /\ m = "dtransf_df"   -> Heaviside_dtransf_df(f)
    [] owner = "Heaviside" /\ m = "d2transf_df2" -> Heaviside_d2transf_df2(f)
    [] OTHER -> Raised("AttributeError", m)

\* instance.m(f) for an instance of class cls: look the method up, run its body
Invoke(cls, m, f) ==
  LET owner == Resolve(cls, m)
      r == Body(owner, m, f)
  IN  IF r.outcome = "return"
      THEN Return(cls, m, f, r.value, owner)
      ELSE Raise(cls, m, f, r.exc, r.msg, owner)

LinkInputs == NdArrays(FVals, "float64") \cup PyFloats(FVals)

CallLink(cls, m) ==
  /\ arg \in LinkInputs
  /\ ret' = Invoke(cls, m, arg)
  /\ UNCHANGED <<obj, log, arg>>

HeavisideTransf      == CallLink("Heaviside", "transf")
HeavisideDtransfDf   == CallLink("Heaviside", "dtransf_df")
HeavisideD2transfDf2 == CallLink("Heaviside", "d2transf_df2")
HeavisideD3transfDf3 == CallLink("Heaviside", "d3transf_df3")
LogTransf            == CallLink("Log", "transf")
LogDtransfDf         == CallLink("Log", "dtransf_df")
LogD2transfDf2       == CallLink("Log", "d2transf_df2")
LogD3transfDf3       == CallLink("Log", "d3transf_df3")

InitLink ==
  /\ obj = None
  /\ log = <<>>
  /\ arg \in LinkInputs
  /\ ret = None

NextLink ==
  \/ HeavisideTransf
  \/ HeavisideDtransfDf
  \/ HeavisideD2transfDf2
  \/ HeavisideD3transfDf3
  \/ LogTransf
  \/ LogDtransfDf
  \/ LogD2transfDf2
  \/ LogD3transfDf3

SpecLink == InitLink /\ [][NextLink]_vars

(* ------------------------- SigmoidalInverse ---------------------------- *)
FloatVals == {-EpsPerOne, -Eps, 0, Eps, EpsPerOne}
IntVals   == {-EpsPerOne, 0, EpsPerOne}

\* storing a float into an array of dtype: integer dtypes truncate toward zero
Cast(v, dtype) ==
  IF dtype = "int64"
  THEN IF v >= 0 THEN (v \div EpsPerOne) * EpsPerOne
       ELSE -(((-v) \div EpsPerOne) * EpsPerOne)
  ELSE v

\* the builtin any() applied to the boolean array (f == 0):
\* iterates the first axis and takes the truth value of each item
RECURSIVE AnyFrom(_, _, _, _)
AnyFrom(mask, n, itemSize, i) ==
  IF i > n THEN "False"
  ELSE IF itemSize > 1 THEN "ValueError"
  ELSE IF itemSize = 1 /\ mask[i] THEN "True"
  ELSE AnyFrom(mask, n, itemSize, i + 1)

BuiltinAny(f) ==
  LET mask == [i \in 1..Len(f.data) |-> f.data[i] = 0] IN
  IF f.shape = <<>> THEN "TypeError"
  ELSE AnyFrom(mask, Head(f.shape), Product(Tail(f.shape)), 1)

\* f[f == 0] = np.finfo(float).eps, in place
MaskAssign(f) ==
  [f EXCEPT !.data = [i \in 1..Len(f.data) |->
                        IF f.data[i] = 0 THEN Cast(Eps, f.dtype) ELSE f.data[i]]]

\* SigmoidalInverse.initialize(f): the outcome, what it printed, and f afterwards
initialize(f) ==
  LET a == BuiltinAny(f) IN
  IF a = "TypeError"
  THEN [cls |-> "SigmoidalInverse", op |-> "initialize", arg |-> f,
        outcome |-> "raise", exc |-> "TypeError",
        msg |-> "object is not iterable", printed |-> <<>>, after |-> f]
  ELSE IF a = "ValueError"
  THEN [cls |-> "SigmoidalInverse", op |-> "initialize", arg |-> f,
        outcome |-> "raise", exc |-> "ValueError",
        msg |-> "The truth value of an array with more than one element is ambiguous",
        printed |-> <<>>, after |-> f]
  ELSE [cls |-> "SigmoidalInverse", op |-> "initialize", arg |-> f,
        outcome |-> "return", value |-> MaskAssign(f),
        printed |-> IF a = "True"
                    THEN <<"Warning: changing parameters to satisfy constraints">>
                    ELSE <<>>,
        after |-> MaskAssign(f)]

SinvInputs ==
  NdArrays(FloatVals, "float64") \cup NdArrays(IntVals, "int64") \cup PyFloats(FloatVals)

CallInitialize ==
  /\ arg \in SinvInputs
  /\ ret' = initialize(arg)
  /\ arg' = ret'.after
  /\ UNCHANGED <<obj, log>>

InitSinv ==
  /\ obj = None
  /\ log = <<>>
  /\ arg \in SinvInputs
  /\ ret = None

NextSinv == CallInitialize

SpecSinv == InitSinv /\ [][NextSinv]_vars

(* ============================== claims ================================= *)
Derivatives == {"dtransf_df", "d2transf_df2", "d3transf_df3"}

\* C1: every derivative call on a Heaviside instance raises
\* NotImplementedError, and the body that raises is Heaviside's own.
C1_HeavisideDerivativesOwnFailure ==
  (ret.outcome # "none" /\ ret.cls = "Heaviside" /\ ret.op \in Derivatives)
    => /\ ret.outcome = "raise"
       /\ ret.exc = "NotImplementedError"
       /\ ret.owner = "Heaviside"

\* the calls recorded since construction that restart the sum
Anchors == {i \in 1..Len(log) : log[i].op = "reset_gradients" \/ log[i].reset}

RECURSIVE SumFrom(_, _)
SumFrom(s, i) == IF i > Len(s) THEN 0 ELSE s[i].g + SumFrom(s, i + 1)

LastAnchor == CHOOSE k \in Anchors : \A j \in Anchors : j <= k

\* C2: once a reset_gradients() or an update_gradients(g, reset=True) has
\* been called, nu's gradient is the sum of the g passed from the latest such
\* call on (that call's own g included, zero for reset_gradients()).
C2_GradientIsSumSinceReset ==
  (IsProbit /\ Anchors # {}) =>
    obj.gradient =
      (IF log[LastAnchor].op = "reset_gradients" THEN 0 ELSE log[LastAnchor].g)
        + SumFrom(log, LastAnchor + 1)

\* an overwrite of a non-zero accumulator followed by two accumulating calls
C2_Witness ==
  /\ IsProbit
  /\ Len(log) = 3
  /\ log[1].op = "update_gradients" /\ log[1].reset /\ log[1].g = MaxG
  /\ log[2].op = "update_gradients" /\ ~log[2].reset /\ log[2].g = MaxG
  /\ log[3].op = "update_gradients" /\ ~log[3].reset /\ log[3].g = -MaxG
  /\ obj.gradient = MaxG

IsArray(a) == a.kind = "ndarray"
HasZero(a) == \E i \in 1..Len(a.data) : a.data[i] = 0

\* C4: initialize applied to any array returns an array of the same length
\* without exact zeros: zeros become Eps, the other elements are unchanged.
C4_InitializeRemovesZeros ==
  (ret.outcome # "none" /\ ret.op = "initialize" /\ IsArray(ret.arg))
    => /\ ret.outcome = "return"
       /\ Len(ret.value.data) = Len(ret.arg.data)
       /\ ~HasZero(ret.value)
       /\ \A i \in 1..Len(ret.arg.data) :
            ret.value.data[i] = IF ret.arg.data[i] = 0 THEN Eps ELSE ret.arg.data[i]

\* C5: initialize never raises, whatever the shape of its input, and prints
\* the warning exactly when the input holds an exact zero.
C5_InitializeNeverRaises ==
  (ret.outcome # "none" /\ ret.op = "initialize")
    => /\ ret.outcome = "return"
       /\ (ret.printed # <<>>) <=> HasZero(ret.arg)

\* C6: on every input the three derivatives of Log return what transf
\* returns: the safe exponential of each element.
C6_LogDerivativesEqualTransf ==
  (ret.outcome # "none" /\ ret.cls = "Log" /\ ret.op \in Derivatives)
    => /\ ret.outcome = "return"
       /\ ret.value = Invoke("Log", "transf", ret.arg).value
       /\ \A i \in 1..Len(ret.arg.data) : ret.value.data[i] = safe_exp(ret.arg.data[i])

\* the second derivative of Log was taken where the exponential is clipped
C6_Witness ==
  /\ ret.outcome = "return" /\ ret.cls = "Log" /\ ret.op = "d2transf_df2"
  /\ \E i \in 1..Len(ret.arg.data) : ret.arg.data[i] > LimValExp
  /\ \E i \in 1..Len(ret.arg.data) : ret.arg.data[i] < 0

\* C7: on a Probit instance transf, the derivatives and dtransf_dtheta change
\* nothing; update_gradients and reset_gradients change at most nu's gradient
\* (nu's value, constraint and fixed status stay); nothing else changes it.
C7_ProbitFrame ==
  [][IsProbit =>
       /\ (ret'.op \in ReadOps) => (obj' = obj)
       /\ (ret'.op \in {"update_gradients", "reset_gradients"})
            => /\ obj'.cls = obj.cls
               /\ obj'.nu = obj.nu
               /\ obj'.fixed = obj.fixed
               /\ obj'.constraint = obj.constraint
       /\ (obj' # obj)
            => ret'.op \in {"update_gradients", "reset_gradients", "__init__"}]_vars

\* a free nu after an accumulating update that changed the gradient
C7_Witness ==
  /\ IsProbit /\ obj.nu = MaxNu /\ ~obj.fixed
  /\ ret.op = "update_gradients" /\ ~ret.arg.reset /\ ret.arg.g = MaxG
  /\ Len(log) = 2 /\ log[1].op = "update_gradients"
  /\ obj.gradient = 2 * MaxG

\* C9: Heaviside.transf is the indicator of f >= 0, as the class
\* documentation states: 1 for every element >= 0, 0 for every element < 0.
C9_HeavisideTransfIsIndicatorGeq ==
  (ret.outcome # "none" /\ ret.cls = "Heaviside" /\ ret.op = "transf")
    => /\ ret.outcome = "return"
       /\ \A i \in 1..Len(ret.arg.data) :
            (ret.value.data[i] = 1) <=> (ret.arg.data[i] >= 0)

\* C10: Probit2(nu, fixed) completes for every positive nu and both values of
\* fixed, and leaves a Probit2 instance holding nu under Logexp, fixed as asked.
C10_Probit2Constructs ==
  (ret.outcome # "none" /\ ret.cls = "Probit2" /\ ret.op = "__init__")
    => /\ ret.outcome = "return"
       /\ obj.outcome = "instance"
       /\ obj.cls = "Probit2"
       /\ obj.nu = ret.arg.nu
       /\ obj.fixed = ret.arg.fixed
       /\ obj.constraint = "Logexp()"

====
